---- MODULE Spec2Model ----
(***************************************************************************)
(* State-machine model of src/zammad.py: the retry driver (_request), the  *)
(* delay calculator (_compute_delay), the paginator (_paginate), the       *)
(* projector (_maybe_compact) and the tool operations that wrap them with  *)
(* status / citation / error events and the confirmation gate.             *)
(*                                                                         *)
(* Conventions.  Durations are integers in centiseconds (0.8 s = 80) and   *)
(* retry_jitter is an integer percentage (0.2 = 20), so every product the  *)
(* code forms in floating point is an exact integer here.  Python's None   *)
(* for an Optional number is the record None; a present number v is        *)
(* Some(v).  A JSON object is a function from keys to values, a JSON array *)
(* a sequence of JSON values; both are tagged (JDict, JList) so that the   *)
(* code's isinstance tests can be modelled, and JNull is Python's None.    *)
(***************************************************************************)
EXTENDS Integers, Sequences, FiniteSets, TLC

VARIABLES
    valves,     \* Tools.valves: the configuration, never written after Init
    call,       \* the invocation in progress: operation, arguments, wiring
    req,        \* the request descriptor handed to _request
    pc,         \* position of the invocation in the code
    attempt,    \* loop variable of _request's for loop
    http,       \* HTTP requests issued so far (one per client.request call)
    outcomes,   \* what the backend answered to each of them
    sleeps,     \* asyncio.sleep calls made so far
    events,     \* events handed to __event_emitter__
    confirms,   \* confirmation requests handed to __event_call__
    result,     \* how the current function ended: nothing yet, return, raise
    history,    \* the invocations completed before the current one
    clients,    \* the httpx.AsyncClient sessions of the invocation: open, closed
    other       \* the invocation in flight that is not running, if there is one

vars ==
    <<valves, call, req, pc, attempt, http, outcomes, sleeps, events, confirms,
      result, history, clients, other>>

(***************************************************************************)
(* Bounds of the model.                                                    *)
(***************************************************************************)
MaxRetries == 2
\* Longest collection the backend returns to _paginate.
MaxLen == 3
\* Largest page and largest per_page asked of _paginate.
MaxPage == 3
MaxPerPage == 2
\* Largest attempt number handed to _compute_delay on its own.
MaxAttempt == 4

Min(a, b) == IF a <= b THEN a ELSE b
Max(a, b) == IF a >= b THEN a ELSE b

RECURSIVE Pow2(_)
Pow2(n) == IF n <= 0 THEN 1 ELSE 2 * Pow2(n - 1)

None == [some |-> FALSE, val |-> 0]
Some(v) == [some |-> TRUE, val |-> v]

(***************************************************************************)
(* JSON values.                                                            *)
(***************************************************************************)
EmptyDict == [k \in {} |-> ""]
JDict(d) == [type |-> "dict", fields |-> d, elems |-> <<>>]
JList(s) == [type |-> "list", fields |-> EmptyDict, elems |-> s]
JNull == [type |-> "null", fields |-> EmptyDict, elems |-> <<>>]
NoJson == JNull
OkMarker == JDict([ok |-> "True"])

TicketA == [id |-> "1", title |-> "printer", note |-> "n1"]
TicketB == [id |-> "2", title |-> "login"]
JsonValues == {JDict(TicketA), JList(<<JDict(TicketA), JDict(TicketB)>>)}

(***************************************************************************)
(* The backend.  A response has a status, a Retry-After header (the empty  *)
(* string when the header is absent) and a body; an attempt may instead    *)
(* end in an httpx exception.                                              *)
(***************************************************************************)
EmptyBody == [text |-> "empty", json |-> NoJson]
GarbageBody == [text |-> "garbage", json |-> NoJson]
JsonBody(v) == [text |-> "json", json |-> v]

Response(status, retry_after, body) ==
    [kind |-> "response", status |-> status, retry_after |-> retry_after,
     body |-> body, exc |-> ""]
Failure(exc) ==
    [kind |-> "exception", status |-> 0, retry_after |-> "",
     body |-> EmptyBody, exc |-> exc]

HttpDate == "Wed, 21 Oct 2015 07:28:00 GMT"
RetryableResponses ==
    {Response(429, "5", EmptyBody), Response(502, HttpDate, GarbageBody),
     Response(503, "", EmptyBody), Response(504, "0", JsonBody(OkMarker))}
ErrorResponses ==
    {Response(404, "", JsonBody(JDict([error |-> "not found"]))),
     Response(500, "5", GarbageBody), Response(400, "", EmptyBody)}
SuccessResponses ==
    {Response(200, "", JsonBody(v)) : v \in JsonValues}
        \cup {Response(200, "", EmptyBody), Response(204, "", EmptyBody),
              Response(201, "", GarbageBody)}
\* Mutant: PoolTimeout missing from the except clause.
CaughtErrors_NoPoolTimeout == {"ConnectTimeout", "ReadTimeout", "ConnectError"}

\* Lines 358-363: the exceptions the except clause names; WriteTimeout stands
\* for the httpx errors it does not name.
CaughtErrors == {"ConnectTimeout", "ReadTimeout", "PoolTimeout", "ConnectError"}
\* The httpx exceptions client.request raises in the model.
HttpxErrors ==
    {"ConnectTimeout", "ReadTimeout", "PoolTimeout", "ConnectError", "WriteTimeout"}

Outcomes ==
    RetryableResponses \cup ErrorResponses \cup SuccessResponses
        \cup {Failure(e) : e \in HttpxErrors}

\* What the backend answers while two invocations are in flight.
PairOutcomes ==
    {Response(200, "", JsonBody(JDict(TicketA))),
     Response(503, "", EmptyBody),
     Response(404, "", JsonBody(JDict([error |-> "not found"]))),
     Failure("ConnectError")}

\* The records of a collection of n elements, each with its own id.
Items(n) == [i \in 1..n |-> JDict([id |-> ToString(i)])]

\* What the backend answers to the GET of _paginate: a collection of 0 to
\* MaxLen records, a single object, no body, or a failure.
PaginateOutcomes ==
    {Response(200, "", JsonBody(JList(Items(n)))) : n \in 0..MaxLen}
        \cup {Response(200, "", JsonBody(JDict(TicketA))),
              Response(200, "", EmptyBody),
              Response(503, "", EmptyBody),
              Response(404, "", JsonBody(JDict([error |-> "not found"]))),
              Failure("ConnectError")}

(***************************************************************************)
(* How a function ended.                                                   *)
(***************************************************************************)
NoDetail == [parsed |-> FALSE, json |-> NoJson, text |-> ""]
Running == [kind |-> "none", value |-> NoJson, exc |-> "", status |-> 0, detail |-> NoDetail]
Return(v) == [kind |-> "return", value |-> v, exc |-> "", status |-> 0, detail |-> NoDetail]
Raise(exc) == [kind |-> "raise", value |-> NoJson, exc |-> exc, status |-> 0, detail |-> NoDetail]
ApiError(status, detail) ==
    [kind |-> "raise", value |-> NoJson, exc |-> "RuntimeError", status |-> status,
     detail |-> detail]

(***************************************************************************)
(* Configuration (Tools.Valves) with the defaults of the source.           *)
(***************************************************************************)
DefaultValves ==
    [base_url |-> [host |-> "https://zammad.example.com", slashes |-> 0],
     token |-> "", username |-> "", password |-> "",
     verify_ssl |-> TRUE, timeout_seconds |-> 3000,
     per_page |-> 20, compact_results_default |-> TRUE,
     max_retries |-> 3, backoff_initial_seconds |-> 80,
     backoff_max_seconds |-> 1000, retry_jitter |-> 20,
     allow_public_articles |-> TRUE,
     require_confirmation_for_write_ops |-> FALSE]

\* A str is truthy in Python when it is not empty.
Truthy(s) == s # ""

\* _api_base: base_url.rstrip("/") + "/api/v1"
ApiBase(v) == [host |-> v.base_url.host, slashes |-> 0, prefix |-> "/api/v1"]

Url(v, path) == [base |-> ApiBase(v), path |-> path]

\* _headers: the Authorization header when a token is set; nothing more when a
\* username/password pair is set; ValueError otherwise.
HeadersRaise(v) == ~Truthy(v.token) /\ ~(Truthy(v.username) /\ Truthy(v.password))

Headers(v) ==
    IF Truthy(v.token)
    THEN [content_type |-> "application/json", authorization |-> <<"Token token=", v.token>>]
    ELSE [content_type |-> "application/json", authorization |-> <<>>]

\* Mutant: basic auth prepared whether or not a token is set.
BasicAuth_IgnoresToken(v) ==
    IF Truthy(v.username) /\ Truthy(v.password)
    THEN <<v.username, v.password>>
    ELSE <<>>

\* _request, "Prepare auth": httpx.BasicAuth only without a token.
BasicAuth(v) ==
    IF Truthy(v.username) /\ Truthy(v.password) /\ ~Truthy(v.token)
    THEN <<v.username, v.password>>
    ELSE <<>>

\* Mutant: the clamp of line 310 forgotten.
MaxRetriesOf_NoClamp(v) == v.max_retries

\* _request: max_retries = max(0, int(valves.max_retries))
MaxRetriesOf(v) == Max(0, v.max_retries)

(***************************************************************************)
(* _compute_delay.  draw stands for the value random.uniform picks: it is  *)
(* -1, 0 or 1 for the lower end, the middle and the upper end of           *)
(* [-delta, delta].                                                        *)
(***************************************************************************)
RandomDraws == {-1, 0, 1}

RandomUniform(delta, draw) == draw * delta

\* Mutant: the floor of line 202 forgotten.
ComputeDelay_NoFloor(v, attempt_no, retry_after, draw) ==
    LET base0 == IF retry_after.some /\ retry_after.val > 0
                 THEN retry_after.val
                 ELSE v.backoff_initial_seconds * Pow2(attempt_no - 1)
        base1 == Min(base0, v.backoff_max_seconds)
        jitter == v.retry_jitter
        delta == (base1 * jitter) \div 100
    IN  IF jitter > 0 THEN base1 + RandomUniform(delta, draw) ELSE base1

\* Mutant: the clamp of line 195 applied to the exponential base only.
ComputeDelay_HintUnclamped(v, attempt_no, retry_after, draw) ==
    LET base1 == IF retry_after.some /\ retry_after.val > 0
                 THEN retry_after.val
                 ELSE Min(v.backoff_initial_seconds * Pow2(attempt_no - 1),
                          v.backoff_max_seconds)
        jitter == v.retry_jitter
        delta == (base1 * jitter) \div 100
        base2 == IF jitter > 0 THEN base1 + RandomUniform(delta, draw) ELSE base1
    IN  Max(0, base2)

\* Mutant: the exponent off by one (2 ** attempt).
ComputeDelay_ExponentOffByOne(v, attempt_no, retry_after, draw) ==
    LET base0 == IF retry_after.some /\ retry_after.val > 0
                 THEN retry_after.val
                 ELSE v.backoff_initial_seconds * Pow2(attempt_no)
        base1 == Min(base0, v.backoff_max_seconds)
        jitter == v.retry_jitter
        delta == (base1 * jitter) \div 100
        base2 == IF jitter > 0 THEN base1 + RandomUniform(delta, draw) ELSE base1
    IN  Max(0, base2)

ComputeDelay(v, attempt_no, retry_after, draw) ==
    LET base0 == IF retry_after.some /\ retry_after.val > 0
                 THEN retry_after.val
                 ELSE v.backoff_initial_seconds * Pow2(attempt_no - 1)
        base1 == Min(base0, v.backoff_max_seconds)
        jitter == v.retry_jitter
        delta == (base1 * jitter) \div 100
        base2 == IF jitter > 0 THEN base1 + RandomUniform(delta, draw) ELSE base1
    IN  Max(0, base2)

\* float(retry_after_hdr) on the header values the backend sends: the number
\* of seconds, in centiseconds, or None when float() raises.
ParseFloat(h) ==
    CASE h = "5" -> Some(500)
      [] h = "0" -> Some(0)
      [] OTHER -> None

\* _request, lines 328-334: the Retry-After hint of a response.
RetryAfterOf(r) == IF Truthy(r.retry_after) THEN ParseFloat(r.retry_after) ELSE None

\* Mutant: 500 taken for a transient status.
RetryableStatus_With500 == {429, 500, 502, 503, 504}

RetryableStatus == {429, 502, 503, 504}

\* Mutant: the raw text dropped when the error body is no JSON.
DetailOf_NoText(r) ==
    IF r.body.text = "json"
    THEN [parsed |-> TRUE, json |-> r.body.json, text |-> ""]
    ELSE NoDetail

\* _request, lines 342-345: detail = r.json(), or r.text when that raises.
DetailOf(r) ==
    IF r.body.text = "json"
    THEN [parsed |-> TRUE, json |-> r.body.json, text |-> ""]
    ELSE [parsed |-> FALSE, json |-> NoJson, text |-> r.body.text]

\* Mutant: the empty-body test of line 353 forgotten.
PayloadOf_NoEmptyTest(r) ==
    IF r.status = 204 THEN Return(OkMarker)
    ELSE IF r.body.text = "json" THEN Return(r.body.json)
    ELSE Raise("JSONDecodeError")

\* _request, lines 350-356: what a response below 400 makes the call return
\* (r.json() raises on a body that is not JSON).
PayloadOf(r) ==
    IF r.status = 204 THEN Return(OkMarker)
    ELSE IF r.body.text = "empty" THEN Return(OkMarker)
    ELSE IF r.body.text = "json" THEN Return(r.body.json)
    ELSE Raise("JSONDecodeError")

(***************************************************************************)
(* _request: the retry driver.                                             *)
(***************************************************************************)
NoArg == [present |-> FALSE, dict |-> EmptyDict]
DictArg(d) == [present |-> TRUE, dict |-> d]

Request(method, path, params, json) ==
    [method |-> method, path |-> path, params |-> params, json |-> json]

\* What client.request(method, url, params=params, json=json) puts on the
\* wire, with the headers and the auth the client was built with.
Wire(v, r) ==
    [method |-> r.method, url |-> Url(v, r.path), params |-> r.params,
     json |-> r.json, headers |-> Headers(v), auth |-> BasicAuth(v)]

\* Mutant: network errors absorbed without a look at the budget.
ShouldRetry_NetworkUnbounded(v, att, o) ==
    \/ att < MaxRetriesOf(v) /\ o.kind = "response" /\ o.status \in RetryableStatus
    \/ o.kind = "exception" /\ o.exc \in CaughtErrors

\* Mutant: the budget test off by one (attempt <= max_retries).
ShouldRetry_OffByOne(v, att, o) ==
    /\ att <= MaxRetriesOf(v)
    /\ \/ o.kind = "response" /\ o.status \in RetryableStatus
       \/ o.kind = "exception" /\ o.exc \in CaughtErrors

\* Lines 327 and 364: the attempt is absorbed and followed by a sleep.
ShouldRetry(v, att, o) ==
    /\ att < MaxRetriesOf(v)
    /\ \/ o.kind = "response" /\ o.status \in RetryableStatus
       \/ o.kind = "exception" /\ o.exc \in CaughtErrors

\* The hint handed to _compute_delay: the parsed Retry-After header of a
\* response (line 336), None after a network error (line 365).
HintOf(o) == IF o.kind = "response" THEN RetryAfterOf(o) ELSE None

\* Lines 341-356 and 368: how the call ends on an attempt that is not absorbed.
Conclude(o) ==
    IF o.kind = "exception" THEN Raise(o.exc)
    ELSE IF o.status >= 400 THEN ApiError(o.status, DetailOf(o))
    ELSE PayloadOf(o)

\* Mutant: the body sent with the first attempt only.
Sent_BodyOnlyOnce(v, r, att, client) ==
    [method |-> r.method, url |-> Url(v, r.path), params |-> r.params,
     json |-> IF att = 0 THEN r.json ELSE NoArg, headers |-> Headers(v),
     auth |-> BasicAuth(v), client |-> client]

\* Line 325: what attempt att sends, on the client of the async with block:
\* method, url, params and json are those of the call at every attempt.
Sent(v, r, att, client) ==
    [method |-> Wire(v, r).method, url |-> Wire(v, r).url,
     params |-> Wire(v, r).params, json |-> Wire(v, r).json,
     headers |-> Wire(v, r).headers, auth |-> Wire(v, r).auth,
     client |-> client]

\* Lines 317-322: the async with block is entered, a client is created.
OpenClient(cl) == Append(cl, "open")

\* Mutant: the client left open when the block is left.
CloseClient_Leaks(cl) == cl

\* Line 317: the async with block is left, by return or by exception, and
\* closes its client.
CloseClient(cl) == [cl EXCEPT ![Len(cl)] = "closed"]

\* Line 323: attempt in range(0, max_retries + 1).
InRange(v, att) == att >= 0 /\ att < MaxRetriesOf(v) + 1

\* Lines 307-323: url, headers (which may raise), max_retries, auth, client,
\* and the entry of the loop; a loop that runs out returns None.
ReqEnter ==
    /\ pc = "req_enter"
    /\ IF HeadersRaise(valves)
       THEN /\ result' = Raise("ValueError")
            /\ pc' = "req_exit"
            /\ UNCHANGED clients
       ELSE IF InRange(valves, 0)
       THEN /\ result' = Running
            /\ pc' = "req_attempt"
            /\ clients' = OpenClient(clients)
       ELSE /\ result' = Return(JNull)
            /\ pc' = "req_exit"
            /\ clients' = CloseClient(OpenClient(clients))
    /\ attempt' = 0
    /\ UNCHANGED <<valves, call, req, http, outcomes, sleeps, events, confirms, history,
                   other>>

\* What the backend may answer to the i-th request of the invocation.  When
\* the host repeats an invocation the backend behaves as it did the first
\* time: it answers the i-th request as it answered the i-th request then.
BackendAnswers(i) ==
    IF /\ history # <<>>
       /\ call.op = history[1].call.op
       /\ call.ticket_id = history[1].call.ticket_id
       /\ i <= Len(history[1].outcomes)
    THEN {history[1].outcomes[i]}
    ELSE IF call.op = "_paginate" THEN PaginateOutcomes
    ELSE IF other # <<>> THEN PairOutcomes
    ELSE Outcomes

\* Lines 323-368: one iteration of the loop, from client.request to the sleep
\* or to the end of the call.
ReqAttempt ==
    /\ pc = "req_attempt"
    /\ \E o \in BackendAnswers(Len(outcomes) + 1) :
         /\ http' = Append(http, Sent(valves, req, attempt, Len(clients)))
         /\ outcomes' = Append(outcomes, o)
         /\ IF ShouldRetry(valves, attempt, o)
            THEN /\ \E draw \in (IF valves.retry_jitter > 0 THEN RandomDraws ELSE {0}) :
                      sleeps' = Append(sleeps,
                          [attempt_no |-> attempt + 1,
                           retry_after |-> HintOf(o),
                           delay |-> ComputeDelay(valves, attempt + 1, HintOf(o), draw)])
                 /\ pc' = "req_sleep"
                 /\ UNCHANGED <<result, clients>>
            ELSE /\ result' = Conclude(o)
                 /\ pc' = "req_exit"
                 /\ clients' = CloseClient(clients)
                 /\ UNCHANGED sleeps
    /\ UNCHANGED <<valves, call, req, attempt, events, confirms, history, other>>

\* Lines 338-339 and 366-367: asyncio.sleep returns, continue.
ReqWake ==
    /\ pc = "req_sleep"
    /\ attempt' = attempt + 1
    /\ IF InRange(valves, attempt + 1)
       THEN /\ pc' = "req_attempt"
            /\ UNCHANGED <<result, clients>>
       ELSE /\ pc' = "req_exit"
            /\ result' = Return(JNull)
            /\ clients' = CloseClient(clients)
    /\ UNCHANGED <<valves, call, req, http, outcomes, sleeps, events, confirms, history,
                   other>>

(***************************************************************************)
(* One _request call on its own.                                           *)
(***************************************************************************)
Credentials ==
    {[token |-> "tok", username |-> "", password |-> ""],
     [token |-> "", username |-> "u", password |-> "p"],
     [token |-> "", username |-> "u", password |-> ""],
     [token |-> "tok", username |-> "u", password |-> "p"],
     [token |-> "", username |-> "", password |-> ""]}

Backoffs ==
    {[initial |-> 80, max |-> 100], [initial |-> 200, max |-> 1000]}

RequestValves ==
    {[DefaultValves EXCEPT !.token = c.token, !.username = c.username,
                           !.password = c.password, !.max_retries = m,
                           !.backoff_initial_seconds = b.initial,
                           !.backoff_max_seconds = b.max, !.retry_jitter = j] :
        c \in Credentials, m \in -1..MaxRetries, b \in Backoffs, j \in {0, 20}}

TicketPath == [route |-> "/tickets/", id |-> "1"]

RequestDescriptors ==
    {Request("GET", TicketPath, NoArg, NoArg),
     Request("POST", [route |-> "/tickets", id |-> ""], NoArg,
             DictArg([title |-> "printer", group |-> "Users"]))}

DirectCall == [op |-> "_request"]

InitRequest ==
    /\ valves \in RequestValves
    /\ call = DirectCall
    /\ req \in RequestDescriptors
    /\ pc = "req_enter"
    /\ attempt = 0
    /\ http = <<>>
    /\ outcomes = <<>>
    /\ sleeps = <<>>
    /\ events = <<>>
    /\ confirms = <<>>
    /\ result = Running
    /\ history = <<>>
    /\ clients = <<>>
    /\ other = <<>>

NextRequest == ReqEnter \/ ReqAttempt \/ ReqWake

SpecRequest == InitRequest /\ [][NextRequest]_vars

(***************************************************************************)
(* The projector: _want_compact, _compact_one, _maybe_compact.             *)
(***************************************************************************)
PyNone == "<None>"

\* dict.get(k): the value, or None when the key is missing.
Get(d, k) == IF k \in DOMAIN d THEN d[k] ELSE PyNone

\* Mutant: body missing from the article keys.
CompactKeys_ArticleNoBody(kind) ==
    CASE kind = "article" ->
           {"id", "ticket_id", "type", "sender", "from", "to", "subject",
            "content_type", "internal", "created_at", "created_by_id"}
      [] kind = "priority" -> {"id", "name", "active"}
      [] OTHER -> {"id"}

\* The keys _compact_one copies for each kind (lines 82-174).
CompactKeys(kind) ==
    CASE kind = "ticket" ->
           {"id", "number", "title", "state", "state_id", "priority", "priority_id",
            "group", "group_id", "customer_id", "owner_id", "organization_id",
            "created_at", "updated_at", "close_at", "tags", "article_count"}
      [] kind = "article" ->
           {"id", "ticket_id", "type", "sender", "from", "to", "subject", "body",
            "content_type", "internal", "created_at", "created_by_id"}
      [] kind = "user" ->
           {"id", "login", "firstname", "lastname", "email", "organization_id",
            "active", "created_at", "updated_at"}
      [] kind = "organization" ->
           {"id", "name", "note", "active", "created_at", "updated_at"}
      [] kind = "state" -> {"id", "name", "state_type", "active"}
      [] kind = "group" -> {"id", "name", "active", "note"}
      [] kind = "priority" -> {"id", "name", "active"}
      [] kind = "report_profile" ->
           {"id", "name", "active", "condition", "created_at", "updated_at"}
      [] OTHER -> {}

KnownKinds ==
    {"ticket", "article", "user", "organization", "state", "group", "priority",
     "report_profile"}

CompactOne(kind, obj) ==
    IF obj.type # "dict" THEN obj
    ELSE IF kind \in KnownKinds
    THEN JDict([k \in CompactKeys(kind) |-> Get(obj.fields, k)])
    ELSE obj

\* Mutant: the sense of the flag inverted.
WantCompact_Inverted(v, compact) ==
    IF compact = "None" THEN ~v.compact_results_default ELSE compact = "False"

\* Mutant: the configured default taken whatever the argument.
WantCompact_DefaultWins(v, compact) == v.compact_results_default

\* compact is "None", "True" or "False" (an Optional[bool]).
WantCompact(v, compact) ==
    IF compact = "None" THEN v.compact_results_default ELSE compact = "True"

\* Mutant: the elements that are no mapping left out of a collection.
MaybeCompact_SkipsNonRecords(kind, data, v, compact) ==
    IF ~WantCompact(v, compact) THEN data
    ELSE IF data.type = "list"
    THEN LET recs == SelectSeq(data.elems, LAMBDA x : x.type = "dict")
         IN  JList([i \in 1..Len(recs) |-> CompactOne(kind, recs[i])])
    ELSE CompactOne(kind, data)

MaybeCompact(kind, data, v, compact) ==
    IF ~WantCompact(v, compact) THEN data
    ELSE IF data.type = "list"
    THEN JList([i \in 1..Len(data.elems) |-> CompactOne(kind, data.elems[i])])
    ELSE CompactOne(kind, data)

(***************************************************************************)
(* _paginate.                                                              *)
(***************************************************************************)
\* Lines 395-402: the exception the validation raises, "" when it passes.
\* int(None) raises TypeError; per_page = 0 falls back to valves.per_page.
EffectivePerPage(v, per_page) == IF per_page.val # 0 THEN per_page.val ELSE v.per_page

PaginateRaises(v, page, per_page) ==
    IF page < 1 THEN "ValueError"
    ELSE IF ~per_page.some THEN "TypeError"
    ELSE IF EffectivePerPage(v, per_page) < 1 THEN "ValueError"
    ELSE ""

\* list[start:end] for 0 <= start <= end.
Slice(s, start, end) == SubSeq(s, start + 1, Min(end, Len(s)))

\* Mutant: the page taken for a 0-based index.
PageOf_ZeroBased(v, data, page, per_page) ==
    IF data.type # "list" THEN JList(<<data>>)
    ELSE LET start_idx == page * EffectivePerPage(v, per_page)
             end_idx == start_idx + EffectivePerPage(v, per_page)
         IN  JList(Slice(data.elems, start_idx, end_idx))

\* Lines 408-414: the page cut out of what _request returned.
PageOf(v, data, page, per_page) ==
    IF data.type # "list" THEN JList(<<data>>)
    ELSE LET start_idx == (page - 1) * EffectivePerPage(v, per_page)
             end_idx == start_idx + EffectivePerPage(v, per_page)
         IN  JList(Slice(data.elems, start_idx, end_idx))

(***************************************************************************)
(* Events: _emit_status, _emit_citation, _emit_error.  Each emits nothing  *)
(* when no emitter is wired.  A description is the f-string's pieces.      *)
(***************************************************************************)
StatusEvent(description, done, hidden) ==
    [type |-> "status", description |-> description, done |-> done,
     hidden |-> hidden, content |-> JNull, exc |-> <<"", 0>>]

\* _format_for_citation: json.dumps of the result.
FormatForCitation(data) == [dumps |-> data]

CitationEvent(name, content) ==
    [type |-> "citation", description |-> name, done |-> FALSE,
     hidden |-> FALSE, content |-> content, exc |-> <<"", 0>>]

ErrorEvent(message, exc) ==
    [type |-> "chat:message:error", description |-> message, done |-> FALSE,
     hidden |-> FALSE, content |-> JNull, exc |-> exc]

\* Mutant: the status emitted whether or not an emitter is wired.
EmitStatus_Always(c, description, done, hidden) ==
    <<StatusEvent(description, done, hidden)>>

EmitStatus(c, description, done, hidden) ==
    IF c.emitter THEN <<StatusEvent(description, done, hidden)>> ELSE <<>>

\* Mutant: the citation dropped.
EmitCitation_Silent(c, name, data) == <<>>

EmitCitation(c, name, data) ==
    IF c.emitter THEN <<CitationEvent(name, FormatForCitation(data))>> ELSE <<>>

\* Mutant: the error notification dropped.
EmitError_Silent(c, message, exc) == <<>>

EmitError(c, message, exc) ==
    IF c.emitter THEN <<ErrorEvent(message, exc)>> ELSE <<>>

(***************************************************************************)
(* _request_confirmation.  An answer of the host is True, "confirmed",     *)
(* False, None, another string, or the call raises.                        *)
(***************************************************************************)
Answers == {"True", "confirmed", "False", "None", "yes", "raise"}

\* Mutant: the sentinel "confirmed" not recognised.
Granted_OnlyTrue(answer) == answer = "True"

\* Mutant: any answer but None taken for a confirmation.
Granted_NotNone(answer) == answer # "None"

\* Line 296: result is True or result == "confirmed".
Granted(answer) == answer = "True" \/ answer = "confirmed"

\* Mutant: a missing transport taken for a refusal.
GrantedWithoutTransport_Refuse == FALSE

\* Lines 284-285: without event_call the confirmation is granted.
GrantedWithoutTransport == TRUE

(***************************************************************************)
(* The tool operations.  An invocation names the operation, its arguments  *)
(* (those not listed keep their defaults) and whether the host wired       *)
(* __event_emitter__ and __event_call__.                                   *)
(***************************************************************************)
Invocation(op, emitter, event_call) ==
    [op |-> op, emitter |-> emitter, event_call |-> event_call,
     ticket_id |-> "1", state |-> "", page |-> 1, per_page |-> None,
     compact |-> "None", title |-> "printer", group |-> "Users",
     new_title |-> "", article_body |-> "", internal |-> TRUE]

WriteOps == {"zammad_create_ticket", "zammad_update_ticket", "zammad_create_ticket_article"}
ListOps == {"zammad_list_tickets"}
GetOps == {"zammad_get_ticket"}

Desc(text, subject, count) == [text |-> text, subject |-> subject, count |-> count]

\* The first status of an operation (lines 520, 571, 636, 726, 854).
ProgressStatus(c) ==
    CASE c.op = "zammad_list_tickets" -> Desc("Listing tickets from Zammad...", "", 0)
      [] c.op = "zammad_get_ticket" -> Desc("Fetching ticket #", c.ticket_id, 0)
      [] c.op = "zammad_create_ticket" -> Desc("Creating ticket", c.title, 0)
      [] c.op = "zammad_update_ticket" -> Desc("Updating ticket #", c.ticket_id, 0)
      [] c.op = "zammad_create_ticket_article" ->
           Desc("Adding article to ticket #", c.ticket_id, 0)

\* The status before the confirmation request (lines 630, 720, 848).
ConfirmStatus(c) ==
    CASE c.op = "zammad_create_ticket" ->
           Desc("Requesting confirmation to create ticket...", "", 0)
      [] c.op = "zammad_update_ticket" ->
           Desc("Requesting confirmation to update ticket...", "", 0)
      [] c.op = "zammad_create_ticket_article" ->
           Desc("Requesting confirmation to add article...", "", 0)

\* The confirmation request (lines 631-632, 721-722, 849-850).
ConfirmationRequest(c) ==
    CASE c.op = "zammad_create_ticket" ->
           [title |-> "Create Ticket", message |-> <<"Create ticket", c.title, c.group>>]
      [] c.op = "zammad_update_ticket" ->
           [title |-> "Update Ticket", message |-> <<"Update ticket #", c.ticket_id>>]
      [] c.op = "zammad_create_ticket_article" ->
           [title |-> "Add Article", message |-> <<"Add article to ticket #", c.ticket_id>>]

\* The status and the exception message of a cancellation (lines 633-634,
\* 723-724, 851-852).
CancelStatus(c) ==
    CASE c.op = "zammad_create_ticket" -> Desc("Ticket creation cancelled by user", "", 0)
      [] c.op = "zammad_update_ticket" -> Desc("Ticket update cancelled by user", "", 0)
      [] c.op = "zammad_create_ticket_article" ->
           Desc("Article creation cancelled by user", "", 0)

\* The prefix of the error message (lines 555, 589, 682, 766, 889).
ErrorMessage(c) ==
    CASE c.op = "zammad_list_tickets" -> Desc("Failed to list tickets: ", "", 0)
      [] c.op = "zammad_get_ticket" -> Desc("Failed to get ticket #", c.ticket_id, 0)
      [] c.op = "zammad_create_ticket" -> Desc("Failed to create ticket: ", "", 0)
      [] c.op = "zammad_update_ticket" -> Desc("Failed to update ticket #", c.ticket_id, 0)
      [] c.op = "zammad_create_ticket_article" ->
           Desc("Failed to create article for ticket #", c.ticket_id, 0)

\* Mutant: the caller's value sent whatever the flag.
EffectiveInternal_CallerWins(v, internal) == internal

\* Lines 658 and 857: internal is forced when public articles are not allowed.
EffectiveInternal(v, internal) == IF v.allow_public_articles THEN internal ELSE TRUE

\* The request an operation hands to _request (lines 540, 573, 638-665,
\* 728-750, 859-874).
RequestOf(v, c) ==
    CASE c.op = "zammad_list_tickets" ->
           Request("GET", [route |-> "/tickets", id |-> ""],
                   DictArg(IF Truthy(c.state)
                           THEN [query |-> <<"state:", c.state>>]
                           ELSE EmptyDict),
                   NoArg)
      [] c.op = "zammad_get_ticket" ->
           Request("GET", [route |-> "/tickets/", id |-> c.ticket_id], NoArg, NoArg)
      [] c.op = "zammad_create_ticket" ->
           Request("POST", [route |-> "/tickets", id |-> ""], NoArg,
                   DictArg([title |-> c.title, group |-> c.group]
                           @@ (IF Truthy(c.article_body)
                               THEN [article |->
                                       [body |-> c.article_body, type |-> "note",
                                        internal |->
                                            EffectiveInternal(v, c.internal)]]
                               ELSE EmptyDict)))
      [] c.op = "zammad_update_ticket" ->
           Request("PUT", [route |-> "/tickets/", id |-> c.ticket_id], NoArg,
                   IF Truthy(c.new_title)
                   THEN DictArg([title |-> c.new_title])
                   ELSE NoArg)
      [] c.op = "zammad_create_ticket_article" ->
           Request("POST", [route |-> "/ticket_articles", id |-> ""], NoArg,
                   DictArg([ticket_id |-> c.ticket_id, body |-> c.article_body,
                            type |-> "note",
                            internal |-> EffectiveInternal(v, c.internal),
                            content_type |-> "text/html"]))

\* What the operation makes of the data _request returned: the result, or
\* the exception the code raises on the way (result.get on a value that is no
\* dict, line 670).
ResultOf(v, c, data) ==
    CASE c.op = "zammad_list_tickets" ->
           Return(MaybeCompact("ticket", PageOf(v, data, c.page, c.per_page), v, c.compact))
      [] c.op = "zammad_get_ticket" -> Return(MaybeCompact("ticket", data, v, c.compact))
      [] c.op = "zammad_create_ticket" ->
           IF MaybeCompact("ticket", data, v, c.compact).type = "dict"
           THEN Return(MaybeCompact("ticket", data, v, c.compact))
           ELSE Raise("AttributeError")
      [] c.op = "zammad_update_ticket" -> Return(MaybeCompact("ticket", data, v, c.compact))
      [] c.op = "zammad_create_ticket_article" -> Return(data)

\* The name of the citation and the text of the last status.
CitationName(c, res) ==
    CASE c.op = "zammad_list_tickets" -> Desc("Zammad Tickets", "", 0)
      [] c.op = "zammad_get_ticket" -> Desc("Ticket #", c.ticket_id, 0)
      [] c.op = "zammad_create_ticket" ->
           Desc("Created Ticket #",
                IF "id" \in DOMAIN res.fields THEN res.fields["id"] ELSE "unknown", 0)
      [] c.op = "zammad_update_ticket" -> Desc("Updated Ticket #", c.ticket_id, 0)
      [] c.op = "zammad_create_ticket_article" ->
           Desc("New Article, ticket #", c.ticket_id, 0)

DoneStatus(c, res) ==
    CASE c.op = "zammad_list_tickets" ->
           Desc("Successfully retrieved tickets", "", Len(res.elems))
      [] c.op = "zammad_get_ticket" -> Desc("Successfully retrieved ticket #", c.ticket_id, 0)
      [] c.op = "zammad_create_ticket" ->
           Desc("Successfully created ticket #",
                IF "id" \in DOMAIN res.fields THEN res.fields["id"] ELSE "unknown", 0)
      [] c.op = "zammad_update_ticket" ->
           Desc("Successfully updated ticket #", c.ticket_id, 0)
      [] c.op = "zammad_create_ticket_article" ->
           Desc("Successfully added article to ticket #", c.ticket_id, 0)

\* The except clause of every operation: emit the error, raise again.
Fail(evs, exc) ==
    /\ events' = evs \o EmitError(call, ErrorMessage(call), <<exc.exc, exc.status>>)
    /\ result' = exc
    /\ pc' = "done"

\* Mutant: the answer of an earlier invocation reused instead of a request.
Proceed_Memoized(evs) ==
    /\ events' = evs \o EmitStatus(call, ProgressStatus(call), FALSE, FALSE)
    /\ req' = RequestOf(valves, call)
    /\ IF history # <<>> /\ history[1].outcomes # <<>>
       THEN /\ result' = Conclude(history[1].outcomes[Len(history[1].outcomes)])
            /\ pc' = "req_exit"
       ELSE /\ result' = Running
            /\ pc' = "req_enter"

\* The operation goes on to its request.
Proceed(evs) ==
    /\ events' = evs \o EmitStatus(call, ProgressStatus(call), FALSE, FALSE)
    /\ req' = RequestOf(valves, call)
    /\ result' = Running
    /\ pc' = "req_enter"

\* Mutant: the cancellation raised without its status.
Cancel_NoStatus(evs) ==
    /\ Fail(evs, Raise("OperationCancelledError"))
    /\ UNCHANGED req

\* The confirmation was refused: status, OperationCancelledError, which the
\* operation's own except clause catches.
Cancel(evs) ==
    /\ Fail(evs \o EmitStatus(call, CancelStatus(call), TRUE, TRUE),
            Raise("OperationCancelledError"))
    /\ UNCHANGED req

\* zammad_get_ticket up to its _request call (lines 570-573).
OpBeginGet ==
    /\ pc = "op_start"
    /\ call.op \in GetOps
    /\ Proceed(events)
    /\ UNCHANGED <<valves, call, attempt, http, outcomes, sleeps, confirms, history, clients, other>>

\* zammad_list_tickets up to the _request call of _paginate (lines 519-540 and
\* 395-406).
OpBeginList ==
    /\ pc = "op_start"
    /\ call.op \in ListOps
    /\ IF PaginateRaises(valves, call.page, call.per_page) # ""
       THEN /\ Fail(events \o EmitStatus(call, ProgressStatus(call), FALSE, FALSE),
                    Raise(PaginateRaises(valves, call.page, call.per_page)))
            /\ UNCHANGED req
       ELSE Proceed(events)
    /\ UNCHANGED <<valves, call, attempt, http, outcomes, sleeps, confirms, history, clients, other>>

\* Mutant: the confirmation asked for whenever a transport is wired.
OpBeginWrite_AlwaysAsks ==
    /\ pc = "op_start"
    /\ call.op \in WriteOps
    /\ IF ~(valves.require_confirmation_for_write_ops \/ call.event_call)
       THEN Proceed(events) /\ UNCHANGED confirms
       ELSE IF call.event_call
       THEN /\ events' = events \o EmitStatus(call, ConfirmStatus(call), FALSE, FALSE)
            /\ confirms' = Append(confirms, ConfirmationRequest(call) @@ [answer |-> "pending"])
            /\ pc' = "op_confirm"
            /\ UNCHANGED <<req, result>>
       ELSE /\ IF GrantedWithoutTransport
               THEN Proceed(events \o EmitStatus(call, ConfirmStatus(call), FALSE, FALSE))
               ELSE Cancel(events \o EmitStatus(call, ConfirmStatus(call), FALSE, FALSE))
            /\ UNCHANGED confirms
    /\ UNCHANGED <<valves, call, attempt, http, outcomes, sleeps, history, clients, other>>

\* A write operation up to its first suspension: the confirmation request
\* when one is due and a transport is wired, its _request call otherwise
\* (lines 627-636, 717-726, 845-854).
OpBeginWrite ==
    /\ pc = "op_start"
    /\ call.op \in WriteOps
    /\ IF ~valves.require_confirmation_for_write_ops
       THEN Proceed(events) /\ UNCHANGED confirms
       ELSE IF call.event_call
       THEN /\ events' = events \o EmitStatus(call, ConfirmStatus(call), FALSE, FALSE)
            /\ confirms' = Append(confirms, ConfirmationRequest(call) @@ [answer |-> "pending"])
            /\ pc' = "op_confirm"
            /\ UNCHANGED <<req, result>>
       ELSE /\ IF GrantedWithoutTransport
               THEN Proceed(events \o EmitStatus(call, ConfirmStatus(call), FALSE, FALSE))
               ELSE Cancel(events \o EmitStatus(call, ConfirmStatus(call), FALSE, FALSE))
            /\ UNCHANGED confirms
    /\ UNCHANGED <<valves, call, attempt, http, outcomes, sleeps, history, clients, other>>

\* __event_call__ answers (lines 287-296 and the caller's test of the result).
OpConfirmReply ==
    /\ pc = "op_confirm"
    /\ \E answer \in Answers :
         /\ confirms' = [confirms EXCEPT ![Len(confirms)].answer = answer]
         /\ IF answer = "raise"
            THEN Fail(events, Raise("HostError")) /\ UNCHANGED req
            ELSE IF Granted(answer)
            THEN Proceed(events)
            ELSE Cancel(events)
    /\ UNCHANGED <<valves, call, attempt, http, outcomes, sleeps, history, clients, other>>

\* _request returned: compact, cite, report, return.
OpReturn ==
    /\ pc = "req_exit"
    /\ call.op # "_request"
    /\ result.kind = "return"
    /\ LET res == ResultOf(valves, call, result.value) IN
         IF res.kind = "raise"
         THEN Fail(events, res)
         ELSE /\ events' = events
                    \o EmitCitation(call, CitationName(call, res.value), res.value)
                    \o EmitStatus(call, DoneStatus(call, res.value), TRUE, TRUE)
              /\ result' = res
              /\ pc' = "done"
    /\ UNCHANGED <<valves, call, req, attempt, http, outcomes, sleeps, confirms, history, clients, other>>

\* _request raised: the except clause.
OpRaise ==
    /\ pc = "req_exit"
    /\ call.op # "_request"
    /\ result.kind = "raise"
    /\ Fail(events, result)
    /\ UNCHANGED <<valves, call, req, attempt, http, outcomes, sleeps, confirms, history, clients, other>>

\* The host invokes the same operation with the same arguments once more,
\* with whatever wiring; the first invocation is kept for comparison.
InvokeAgain ==
    /\ pc = "done"
    /\ history = <<>>
    /\ history' = <<[call |-> call, http |-> http, outcomes |-> outcomes,
                    sleeps |-> sleeps, events |-> events, confirms |-> confirms,
                    result |-> result]>>
    /\ \E e \in BOOLEAN, ec \in (IF call.op \in WriteOps THEN BOOLEAN ELSE {FALSE}) :
          call' = [call EXCEPT !.emitter = e, !.event_call = ec]
    /\ pc' = "op_start"
    /\ attempt' = 0
    /\ http' = <<>>
    /\ outcomes' = <<>>
    /\ sleeps' = <<>>
    /\ events' = <<>>
    /\ confirms' = <<>>
    /\ result' = Running
    /\ clients' = <<>>
    /\ UNCHANGED <<valves, req, other>>

OpValves ==
    {[DefaultValves EXCEPT !.token = t, !.max_retries = m, !.retry_jitter = 0,
                           !.per_page = 1,
                           !.require_confirmation_for_write_ops = rc] :
        t \in {"", "tok"}, m \in {0, 1}, rc \in BOOLEAN}

Invocations ==
    {Invocation(op, e, ec) : op \in WriteOps, e \in BOOLEAN, ec \in BOOLEAN}
        \cup {Invocation(op, e, FALSE) : op \in GetOps, e \in BOOLEAN}
        \cup {[Invocation(op, e, FALSE) EXCEPT !.page = p, !.per_page = pp] :
                op \in ListOps, e \in BOOLEAN, p \in {0, 1, 2},
                pp \in {None, Some(0), Some(1), Some(-1)}}

Init ==
    /\ valves \in OpValves
    /\ call \in Invocations
    /\ req = Request("", [route |-> "", id |-> ""], NoArg, NoArg)
    /\ pc = "op_start"
    /\ attempt = 0
    /\ http = <<>>
    /\ outcomes = <<>>
    /\ sleeps = <<>>
    /\ events = <<>>
    /\ confirms = <<>>
    /\ result = Running
    /\ history = <<>>
    /\ clients = <<>>
    /\ other = <<>>

Next ==
    \/ OpBeginGet
    \/ OpBeginList
    \/ OpBeginWrite
    \/ OpConfirmReply
    \/ ReqEnter
    \/ ReqAttempt
    \/ ReqWake
    \/ OpReturn
    \/ OpRaise

Spec == Init /\ [][Next]_vars

NextTwice == Next \/ InvokeAgain

SpecTwice == Init /\ [][NextTwice]_vars

(***************************************************************************)
(* The write operations with every setting of allow_public_articles and    *)
(* every value of the caller's internal argument, with and without an      *)
(* article body; no confirmation transport is wired.                       *)
(***************************************************************************)
WriteValves ==
    {[DefaultValves EXCEPT !.token = "tok", !.max_retries = m, !.retry_jitter = 0,
                           !.allow_public_articles = a,
                           !.require_confirmation_for_write_ops = rc] :
        m \in {0, 1}, a \in BOOLEAN, rc \in BOOLEAN}

WriteInvocations ==
    {[Invocation(op, e, FALSE) EXCEPT !.internal = i, !.article_body = b] :
        op \in WriteOps, e \in BOOLEAN, i \in BOOLEAN, b \in {"", "hello"}}

InitWrite ==
    /\ valves \in WriteValves
    /\ call \in WriteInvocations
    /\ req = Request("", [route |-> "", id |-> ""], NoArg, NoArg)
    /\ pc = "op_start"
    /\ attempt = 0
    /\ http = <<>>
    /\ outcomes = <<>>
    /\ sleeps = <<>>
    /\ events = <<>>
    /\ confirms = <<>>
    /\ result = Running
    /\ history = <<>>
    /\ clients = <<>>
    /\ other = <<>>

NextWrite ==
    \/ OpBeginWrite
    \/ ReqEnter
    \/ ReqAttempt
    \/ ReqWake
    \/ OpReturn
    \/ OpRaise

SpecWrite == InitWrite /\ [][NextWrite]_vars

(***************************************************************************)
(* Two invocations in flight on one Tools object.  asyncio runs one of     *)
(* them at a time and may resume the other wherever the running one awaits *)
(* a response, a sleep or a confirmation, has not started or has ended.    *)
(* The first invocation is first run alone, the second not being started,  *)
(* and then once more alongside the second, for comparison.                *)
(***************************************************************************)
\* The running invocation, as it is parked when the other one is resumed.
Suspended ==
    [call |-> call, req |-> req, pc |-> pc, attempt |-> attempt, http |-> http,
     outcomes |-> outcomes, sleeps |-> sleeps, events |-> events,
     confirms |-> confirms, result |-> result, clients |-> clients]

\* An invocation that has not started.
NotStarted(c) ==
    [call |-> c, req |-> Request("", [route |-> "", id |-> ""], NoArg, NoArg),
     pc |-> "op_start", attempt |-> 0, http |-> <<>>, outcomes |-> <<>>,
     sleeps |-> <<>>, events |-> <<>>, confirms |-> <<>>, result |-> Running,
     clients |-> <<>>]

\* Where the event loop may leave the running invocation for the other one.
SwitchPoints == {"op_start", "op_confirm", "req_attempt", "req_sleep", "done"}

\* Mutant: one list of events shared by the invocations in flight.
Switch_SharedEvents ==
    /\ history # <<>>
    /\ other # <<>>
    /\ pc \in SwitchPoints
    /\ other[1].pc # "done"
    /\ call' = other[1].call
    /\ req' = other[1].req
    /\ pc' = other[1].pc
    /\ attempt' = other[1].attempt
    /\ http' = other[1].http
    /\ outcomes' = other[1].outcomes
    /\ sleeps' = other[1].sleeps
    /\ confirms' = other[1].confirms
    /\ result' = other[1].result
    /\ clients' = other[1].clients
    /\ other' = <<Suspended>>
    /\ UNCHANGED <<valves, history, events>>

\* The event loop parks the running invocation and resumes the other one.
Switch ==
    /\ history # <<>>
    /\ other # <<>>
    /\ pc \in SwitchPoints
    /\ other[1].pc # "done"
    /\ call' = other[1].call
    /\ req' = other[1].req
    /\ pc' = other[1].pc
    /\ attempt' = other[1].attempt
    /\ http' = other[1].http
    /\ outcomes' = other[1].outcomes
    /\ sleeps' = other[1].sleeps
    /\ events' = other[1].events
    /\ confirms' = other[1].confirms
    /\ result' = other[1].result
    /\ clients' = other[1].clients
    /\ other' = <<Suspended>>
    /\ UNCHANGED <<valves, history>>

\* The first invocation has been run alone; the host makes it once more,
\* this time with the second invocation in flight.
RunAlongside ==
    /\ pc = "done"
    /\ history = <<>>
    /\ other # <<>>
    /\ history' = <<[call |-> call, http |-> http, outcomes |-> outcomes,
                    sleeps |-> sleeps, events |-> events, confirms |-> confirms,
                    result |-> result]>>
    /\ pc' = "op_start"
    /\ attempt' = 0
    /\ http' = <<>>
    /\ outcomes' = <<>>
    /\ sleeps' = <<>>
    /\ events' = <<>>
    /\ confirms' = <<>>
    /\ result' = Running
    /\ clients' = <<>>
    /\ UNCHANGED <<valves, call, req, other>>

PairValves ==
    {[DefaultValves EXCEPT !.token = "tok", !.max_retries = 1, !.retry_jitter = 0,
                           !.per_page = 1,
                           !.require_confirmation_for_write_ops = TRUE]}

PairInvocations(ticket) ==
    {[Invocation("zammad_get_ticket", TRUE, FALSE) EXCEPT !.ticket_id = ticket],
     [Invocation("zammad_create_ticket", TRUE, TRUE) EXCEPT !.ticket_id = ticket],
     [Invocation("zammad_update_ticket", FALSE, TRUE) EXCEPT !.ticket_id = ticket],
     [Invocation("zammad_list_tickets", TRUE, FALSE)
        EXCEPT !.ticket_id = ticket, !.per_page = Some(1)]}

InitPair ==
    /\ valves \in PairValves
    /\ call \in PairInvocations("1")
    /\ req = Request("", [route |-> "", id |-> ""], NoArg, NoArg)
    /\ pc = "op_start"
    /\ attempt = 0
    /\ http = <<>>
    /\ outcomes = <<>>
    /\ sleeps = <<>>
    /\ events = <<>>
    /\ confirms = <<>>
    /\ result = Running
    /\ history = <<>>
    /\ clients = <<>>
    /\ other \in {<<NotStarted(c)>> : c \in PairInvocations("2")}

NextPair == Next \/ RunAlongside \/ Switch

SpecPair == InitPair /\ [][NextPair]_vars

(***************************************************************************)
(* One _paginate call on its own.                                          *)
(***************************************************************************)
\* Mutant: page and per_page forwarded to the backend.
PagBegin_ForwardsPage ==
    /\ pc = "pag_start"
    /\ IF PaginateRaises(valves, call.page, call.per_page) # ""
       THEN /\ result' = Raise(PaginateRaises(valves, call.page, call.per_page))
            /\ pc' = "done"
            /\ UNCHANGED req
       ELSE /\ req' = Request("GET", call.path,
                              DictArg([page |-> ToString(call.page),
                                       per_page |-> ToString(call.per_page.val)]
                                      @@ call.params),
                              NoArg)
            /\ result' = Running
            /\ pc' = "req_enter"
    /\ UNCHANGED <<valves, call, attempt, http, outcomes, sleeps, events, confirms, history,
                   clients, other>>

\* Lines 395-406: validation, then the GET handed to _request.
PagBegin ==
    /\ pc = "pag_start"
    /\ IF PaginateRaises(valves, call.page, call.per_page) # ""
       THEN /\ result' = Raise(PaginateRaises(valves, call.page, call.per_page))
            /\ pc' = "done"
            /\ UNCHANGED req
       ELSE /\ req' = Request("GET", call.path, DictArg(call.params), NoArg)
            /\ result' = Running
            /\ pc' = "req_enter"
    /\ UNCHANGED <<valves, call, attempt, http, outcomes, sleeps, events, confirms, history, clients, other>>

\* Lines 408-414: _request returned, the page is cut out.
PagReturn ==
    /\ pc = "req_exit"
    /\ call.op = "_paginate"
    /\ result.kind = "return"
    /\ result' = Return(PageOf(valves, result.value, call.page, call.per_page))
    /\ pc' = "done"
    /\ UNCHANGED <<valves, call, req, attempt, http, outcomes, sleeps, events, confirms, history, clients, other>>

\* Line 406: an exception of _request leaves _paginate as it is.
PagRaise ==
    /\ pc = "req_exit"
    /\ call.op = "_paginate"
    /\ result.kind = "raise"
    /\ pc' = "done"
    /\ UNCHANGED <<valves, call, req, attempt, http, outcomes, sleeps, events, confirms,
                   result, history, clients, other>>

PaginateValves ==
    {[DefaultValves EXCEPT !.token = "tok", !.max_retries = m, !.retry_jitter = 0,
                           !.per_page = pp] :
        m \in {0, 1}, pp \in {0, MaxPerPage}}

PaginateCalls ==
    {[op |-> "_paginate", path |-> [route |-> "/tickets", id |-> ""],
      params |-> q, page |-> p, per_page |-> pp] :
        q \in {EmptyDict, [query |-> "state:open"]},
        p \in 0..MaxPage, pp \in {None} \cup {Some(n) : n \in -1..MaxPerPage}}

InitPaginate ==
    /\ valves \in PaginateValves
    /\ call \in PaginateCalls
    /\ req = Request("", [route |-> "", id |-> ""], NoArg, NoArg)
    /\ pc = "pag_start"
    /\ attempt = 0
    /\ http = <<>>
    /\ outcomes = <<>>
    /\ sleeps = <<>>
    /\ events = <<>>
    /\ confirms = <<>>
    /\ result = Running
    /\ history = <<>>
    /\ clients = <<>>
    /\ other = <<>>

NextPaginate ==
    \/ PagBegin
    \/ ReqEnter
    \/ ReqAttempt
    \/ ReqWake
    \/ PagReturn
    \/ PagRaise

SpecPaginate == InitPaginate /\ [][NextPaginate]_vars

(***************************************************************************)
(* One _maybe_compact call on its own.                                     *)
(***************************************************************************)
\* Lines 179-185: the whole function.
Project ==
    /\ pc = "proj_start"
    /\ result' = Return(MaybeCompact(call.kind, call.data, valves, call.compact))
    /\ pc' = "done"
    /\ UNCHANGED <<valves, call, req, attempt, http, outcomes, sleeps, events, confirms,
                   history, clients, other>>

ArticleA ==
    [id |-> "7", ticket_id |-> "1", type |-> "note", sender |-> "Agent",
     from |-> "a", to |-> "b", subject |-> "s", body |-> "text",
     content_type |-> "text/html", internal |-> "True",
     created_at |-> "t", created_by_id |-> "3", attachments |-> "none"]
ArticleB == [id |-> "8", ticket_id |-> "1", body |-> "reply", internal |-> "False"]
PriorityA == [id |-> "2", name |-> "2 normal", active |-> "True"]

\* Records, collections of records, and values that are no mapping.
ProjectInputs ==
    {JDict(TicketA), JDict(TicketB), JDict(ArticleA), JDict(PriorityA),
     JDict(EmptyDict), JNull, JList(<<>>),
     JList(<<JDict(TicketA), JDict(TicketB)>>),
     JList(<<JDict(PriorityA), JNull>>),
     JList(<<JDict(ArticleA), JDict(ArticleB)>>)}

ProjectCalls ==
    {[op |-> "_maybe_compact", kind |-> k, data |-> d, compact |-> c] :
        k \in KnownKinds \cup {"attachment"}, d \in ProjectInputs,
        c \in {"None", "True", "False"}}

ProjectValves ==
    {[DefaultValves EXCEPT !.compact_results_default = d] : d \in BOOLEAN}

InitProject ==
    /\ valves \in ProjectValves
    /\ call \in ProjectCalls
    /\ req = Request("", [route |-> "", id |-> ""], NoArg, NoArg)
    /\ pc = "proj_start"
    /\ attempt = 0
    /\ http = <<>>
    /\ outcomes = <<>>
    /\ sleeps = <<>>
    /\ events = <<>>
    /\ confirms = <<>>
    /\ result = Running
    /\ history = <<>>
    /\ clients = <<>>
    /\ other = <<>>

NextProject == Project

SpecProject == InitProject /\ [][NextProject]_vars

\* The caller hands the value _maybe_compact returned to _maybe_compact once
\* more, for the same kind, with compact True or False; the first call is
\* kept for comparison.
ProjectAgain ==
    /\ pc = "done"
    /\ history = <<>>
    /\ history' = <<[call |-> call, http |-> http, outcomes |-> outcomes,
                    sleeps |-> sleeps, events |-> events, confirms |-> confirms,
                    result |-> result]>>
    /\ \E c \in {"True", "False"} :
          call' = [call EXCEPT !.data = result.value, !.compact = c]
    /\ result' = Running
    /\ pc' = "proj_start"
    /\ UNCHANGED <<valves, req, attempt, http, outcomes, sleeps, events, confirms,
                   clients, other>>

NextReproject == Project \/ ProjectAgain

SpecReproject == InitProject /\ [][NextReproject]_vars

(***************************************************************************)
(* One _compute_delay call on its own.                                     *)
(***************************************************************************)
\* Lines 190-202: the whole function, with the value random.uniform draws.
Delay ==
    /\ pc = "delay_start"
    /\ \E draw \in (IF valves.retry_jitter > 0 THEN RandomDraws ELSE {0}) :
          result' = Return(ComputeDelay(valves, call.attempt, call.retry_after, draw))
    /\ pc' = "done"
    /\ UNCHANGED <<valves, call, req, attempt, http, outcomes, sleeps, events, confirms,
                   history, clients, other>>

\* Valves carries no validation: every number is a possible setting.
DelayValves ==
    {[DefaultValves EXCEPT !.backoff_initial_seconds = bi,
                           !.backoff_max_seconds = bm, !.retry_jitter = j] :
        bi \in {-80, 0, 80, 200}, bm \in {-100, 0, 100, 1000},
        j \in {-20, 0, 20, 100, 150}}

DelayCalls ==
    {[op |-> "_compute_delay", attempt |-> a, retry_after |-> h] :
        a \in 1..MaxAttempt,
        h \in {None, Some(-500), Some(0), Some(500), Some(2000)}}

InitDelay ==
    /\ valves \in DelayValves
    /\ call \in DelayCalls
    /\ req = Request("", [route |-> "", id |-> ""], NoArg, NoArg)
    /\ pc = "delay_start"
    /\ attempt = 0
    /\ http = <<>>
    /\ outcomes = <<>>
    /\ sleeps = <<>>
    /\ events = <<>>
    /\ confirms = <<>>
    /\ result = Running
    /\ history = <<>>
    /\ clients = <<>>
    /\ other = <<>>

NextDelay == Delay

SpecDelay == InitDelay /\ [][NextDelay]_vars

(***************************************************************************)
(* Properties of the retry driver, checked under SpecRequest.              *)
(***************************************************************************)
IsRetryableResponse(o) == o.kind = "response" /\ o.status \in {429, 502, 503, 504}

IsNetworkFailure(o) ==
    o.kind = "exception"
        /\ o.exc \in {"ConnectTimeout", "ReadTimeout", "PoolTimeout", "ConnectError"}

ConfigurationError == result.kind = "raise" /\ result.exc = "ValueError"

\* C1: a _request call never makes more than max(0, max_retries) + 1 HTTP
\* attempts, whatever the backend answers; with max_retries <= 0 it never
\* sleeps, and it ends after exactly one attempt (a call that fails on the
\* credentials before the loop makes none).
C1_AttemptBudget ==
    /\ Len(http) <= Max(0, valves.max_retries) + 1
    /\ Len(sleeps) <= Max(0, valves.max_retries)
    /\ valves.max_retries <= 0 =>
         /\ sleeps = <<>>
         /\ (pc = "req_exit" /\ ~ConfigurationError) => Len(http) = 1

C1_Witness ==
    /\ valves.max_retries = -1
    /\ pc = "req_exit"
    /\ Len(http) = 1
    /\ IsRetryableResponse(outcomes[1])

C3_RetryableExhausted ==
    LET n == Len(outcomes)
        N == Max(0, valves.max_retries)
    IN  (n >= 1 /\ \A i \in 1..n : IsRetryableResponse(outcomes[i]))
        => IF n = N + 1
           THEN /\ pc = "req_exit"
                /\ Len(http) = N + 1
                /\ Len(sleeps) = N
                /\ result.kind = "raise"
                /\ result.exc = "RuntimeError"
                /\ result.status = outcomes[n].status
           ELSE /\ n <= N
                /\ pc \in {"req_sleep", "req_attempt"}
                /\ Len(sleeps) = n

C3_Witness ==
    /\ valves.max_retries = 2
    /\ Len(outcomes) = 3
    /\ \A i \in 1..3 : outcomes[i].status = 503
    /\ pc = "req_exit"
    /\ result.status = 503

\* C4: a response with a status >= 400 outside {429, 502, 503, 504} is always
\* the last attempt of its call: the call ends there raising the API error
\* with that status, and no sleep follows it.
C4_TerminalImmediately ==
    \A i \in 1..Len(outcomes) :
        ( /\ outcomes[i].kind = "response"
          /\ outcomes[i].status >= 400
          /\ outcomes[i].status \notin {429, 502, 503, 504} )
        => /\ i = Len(outcomes)
           /\ Len(http) = i
           /\ Len(sleeps) = i - 1
           /\ pc = "req_exit"
           /\ result.kind = "raise"
           /\ result.exc = "RuntimeError"
           /\ result.status = outcomes[i].status

C4_Witness ==
    /\ valves.max_retries = 2
    /\ Len(outcomes) = 2
    /\ IsRetryableResponse(outcomes[1])
    /\ outcomes[2].status = 500
    /\ pc = "req_exit"

\* C5: a connect/read/pool timeout or connection failure on attempt i <=
\* max_retries is followed by a sleep whose delay is computed for attempt
\* number i without a server hint, and then by a further attempt; when every
\* attempt ends that way the call raises the last network error after
\* max_retries + 1 attempts and max_retries sleeps.
C5_NetworkFailures ==
    LET n == Len(outcomes)
        N == Max(0, valves.max_retries)
    IN  /\ \A i \in 1..n :
              (IsNetworkFailure(outcomes[i]) /\ i <= N)
              => /\ Len(sleeps) >= i
                 /\ sleeps[i].retry_after = None
                 /\ \E d \in {-1, 0, 1} :
                        sleeps[i].delay = ComputeDelay(valves, i, None, d)
                 /\ i = n => pc \in {"req_sleep", "req_attempt"}
        /\ (n >= 1 /\ \A i \in 1..n : IsNetworkFailure(outcomes[i]))
           => IF n = N + 1
              THEN /\ pc = "req_exit"
                   /\ Len(http) = N + 1
                   /\ Len(sleeps) = N
                   /\ result.kind = "raise"
                   /\ result.exc = outcomes[n].exc
              ELSE /\ n <= N
                   /\ pc \in {"req_sleep", "req_attempt"}
        /\ pc = "req_attempt" => attempt = n

C5_Witness ==
    /\ valves.max_retries = 2
    /\ Len(outcomes) = 3
    /\ \A i \in 1..3 : IsNetworkFailure(outcomes[i])
    /\ outcomes[3].exc = "PoolTimeout"
    /\ result.exc = "PoolTimeout"
    /\ Len(sleeps) = 2

ErrorEventCount ==
    Cardinality({i \in 1..Len(events) : events[i].type = "chat:message:error"})

\* C7: with require_confirmation_for_write_ops set and a confirmation
\* transport that answers False, a write operation has ended raising
\* OperationCancelledError and has issued no HTTP request.
C7_DeclinedIssuesNoRequest ==
    ( /\ call.op \in WriteOps
      /\ valves.require_confirmation_for_write_ops
      /\ Len(confirms) = 1
      /\ confirms[1].answer = "False" )
    => /\ pc = "done"
       /\ result.kind = "raise"
       /\ result.exc = "OperationCancelledError"
       /\ http = <<>>

C7_Witness ==
    /\ call.op = "zammad_create_ticket_article"
    /\ valves.require_confirmation_for_write_ops
    /\ Len(confirms) = 1
    /\ confirms[1].answer = "False"
    /\ pc = "done"
    /\ http = <<>>

\* C8: a write operation that ends with OperationCancelledError has emitted
\* Status events only, no Error event.
C8_CancellationEmitsNoError ==
    (pc = "done" /\ result.kind = "raise" /\ result.exc = "OperationCancelledError")
    => \A i \in 1..Len(events) : events[i].type = "status"

\* C9: with require_confirmation_for_write_ops set, a write operation run
\* without a confirmation transport and the same operation run with a
\* transport that grants the confirmation, against the same backend and with
\* the same emitter wiring, issue the same HTTP requests, emit the same events
\* and end the same way.
C9_NoTransportAsGranted ==
    LET first == history[1]
        Without(c) == ~c.event_call
        GrantedBy(c, cf) ==
            c.event_call /\ Len(cf) = 1 /\ cf[1].answer \in {"True", "confirmed"}
    IN  ( /\ history # <<>>
          /\ pc = "done"
          /\ call.op \in WriteOps
          /\ valves.require_confirmation_for_write_ops
          /\ call.emitter = first.call.emitter
          /\ \/ Without(call) /\ GrantedBy(first.call, first.confirms)
             \/ Without(first.call) /\ GrantedBy(call, confirms) )
        => /\ http = first.http
           /\ sleeps = first.sleeps
           /\ events = first.events
           /\ result = first.result

C9_Witness ==
    /\ history # <<>>
    /\ pc = "done"
    /\ call.op = "zammad_update_ticket"
    /\ valves.require_confirmation_for_write_ops
    /\ call.emitter
    /\ history[1].call.emitter
    /\ ~call.event_call
    /\ history[1].call.event_call
    /\ history[1].confirms[1].answer = "confirmed"
    /\ Len(http) = 2
    /\ result.kind = "return"

\* C10, the state part: an invocation with an emitter that has ended in an
\* exception has emitted exactly one Error event, as its last event, for that
\* exception; no Error event is emitted before the end, and none by an
\* invocation that returns.
C10_OneErrorEvent ==
    /\ (pc = "done" /\ call.emitter /\ result.kind = "raise")
       => /\ ErrorEventCount = 1
          /\ events[Len(events)].type = "chat:message:error"
          /\ events[Len(events)].exc = <<result.exc, result.status>>
    /\ (pc # "done" \/ result.kind # "raise") => ErrorEventCount = 0
    /\ (pc = "done" /\ result.kind = "return")
       => /\ http # <<>>
          /\ outcomes[Len(outcomes)].kind = "response"
          /\ outcomes[Len(outcomes)].status < 400

\* C10: with an emitter wired every invocation that fails emits exactly one
\* Error event and ends raising the exception that made it fail: an exception
\* of _request is the exception of the operation.
C10_FailureNotifiedAndPropagated ==
    /\ []C10_OneErrorEvent
    /\ [][(pc = "req_exit" /\ call.op # "_request" /\ result.kind = "raise")
            => (pc' = "done" /\ result' = result)]_vars

C10_Witness ==
    /\ pc = "done"
    /\ call.emitter
    /\ call.op = "zammad_list_tickets"
    /\ result.kind = "raise"
    /\ result.exc = "RuntimeError"
    /\ result.status = 503
    /\ Len(http) = 2
    /\ ErrorEventCount = 1

InRequest == pc \in {"req_enter", "req_attempt", "req_sleep", "req_exit"}

EventsOfType(t) == {i \in 1..Len(events) : events[i].type = t}

DoneStatusEvents == {i \in EventsOfType("status") : events[i].done}

\* C11: with an emitter wired, an in-progress Status (done = false) has been
\* emitted before the first HTTP attempt; no Citation and no Status(done) is
\* emitted while attempts may still follow; an invocation that has returned
\* has emitted exactly one Citation, carrying the serialized result it
\* returns, followed by exactly one Status(done, hidden) as its last event,
\* and no Error event.
C11_SuccessEventOrder ==
    /\ (call.emitter /\ (InRequest \/ http # <<>>))
       => \E i \in EventsOfType("status") : ~events[i].done
    /\ InRequest
       => /\ EventsOfType("citation") = {}
          /\ DoneStatusEvents = {}
    /\ (pc = "done" /\ result.kind = "return" /\ call.emitter)
       => LET n == Len(events) IN
          /\ n >= 3
          /\ EventsOfType("citation") = {n - 1}
          /\ events[n - 1].content = [dumps |-> result.value]
          /\ DoneStatusEvents = {n}
          /\ events[n].hidden
          /\ EventsOfType("chat:message:error") = {}
          /\ \A i \in 1..(n - 2) : events[i].type = "status" /\ ~events[i].done

C11_Witness ==
    /\ pc = "done"
    /\ result.kind = "return"
    /\ call.emitter
    /\ call.op = "zammad_create_ticket"
    /\ valves.require_confirmation_for_write_ops
    /\ Len(http) = 2
    /\ Len(events) = 4

\* C12: for a write operation with require_confirmation_for_write_ops set and
\* a confirmation transport wired, the Status describing the confirmation
\* request is emitted before the confirmation request is issued; while the
\* request is pending no HTTP request has been sent, and any HTTP request
\* follows a granted confirmation; a declined confirmation has emitted the
\* Status(done) cancellation event by the time OperationCancelledError is
\* raised.
C12_ConfirmationOrder ==
    (call.op \in WriteOps /\ valves.require_confirmation_for_write_ops /\ call.event_call)
    => /\ pc = "op_start" => (confirms = <<>> /\ http = <<>>)
       /\ pc = "op_confirm"
          => /\ http = <<>>
             /\ Len(confirms) = 1
             /\ confirms[1].answer = "pending"
             /\ call.emitter
                => /\ Len(events) = 1
                   /\ events[1].type = "status"
                   /\ ~events[1].done
                   /\ events[1].description.text \in
                          {"Requesting confirmation to create ticket...",
                           "Requesting confirmation to update ticket...",
                           "Requesting confirmation to add article..."}
       /\ http # <<>>
          => /\ Len(confirms) = 1
             /\ confirms[1].answer \in {"True", "confirmed"}
       /\ (pc = "done" /\ result.kind = "raise"
              /\ result.exc = "OperationCancelledError" /\ call.emitter)
          => /\ Len(events) >= 2
             /\ events[2].type = "status"
             /\ events[2].done
             /\ events[2].description.text \in
                    {"Ticket creation cancelled by user",
                     "Ticket update cancelled by user",
                     "Article creation cancelled by user"}

C12_Witness ==
    /\ call.op = "zammad_create_ticket"
    /\ valves.require_confirmation_for_write_ops
    /\ call.event_call
    /\ call.emitter
    /\ pc = "done"
    /\ result.exc = "OperationCancelledError"
    /\ confirms[1].answer = "None"
    /\ events[2].done

\* C13: an answer of the confirmation transport lets the write operation go
\* on exactly when it is True or "confirmed"; on every other answer (False,
\* None, another string) the operation is cancelled without an HTTP request.
C13_GrantedExactly ==
    ( /\ call.op \in WriteOps
      /\ Len(confirms) = 1
      /\ confirms[1].answer \notin {"pending", "raise"} )
    => IF confirms[1].answer \in {"True", "confirmed"}
       THEN /\ ~(result.kind = "raise" /\ result.exc = "OperationCancelledError")
            /\ InRequest \/ pc = "done"
            /\ pc = "done" => http # <<>> \/ result.exc = "ValueError"
       ELSE /\ pc = "done"
            /\ result.kind = "raise"
            /\ result.exc = "OperationCancelledError"
            /\ http = <<>>

C13_Witness ==
    /\ call.op = "zammad_update_ticket"
    /\ Len(confirms) = 1
    /\ confirms[1].answer = "confirmed"
    /\ pc = "done"
    /\ result.kind = "return"
    /\ Len(http) = 1

\* C14: an invocation without an emitter emits no event, and two invocations
\* of the same operation with the same arguments that differ only in the
\* emitter being wired, against the same backend and the same confirmation
\* answers, issue the same HTTP requests, sleep the same and end with the same
\* result or the same exception.
C14_EmitterNonInterference ==
    /\ ~call.emitter => events = <<>>
    /\ ( /\ history # <<>>
         /\ pc = "done"
         /\ call.emitter # history[1].call.emitter
         /\ call.event_call = history[1].call.event_call
         /\ confirms = history[1].confirms )
       => /\ http = history[1].http
          /\ sleeps = history[1].sleeps
          /\ result = history[1].result

C14_Witness ==
    /\ history # <<>>
    /\ pc = "done"
    /\ call.op = "zammad_list_tickets"
    /\ ~call.emitter
    /\ history[1].call.emitter
    /\ history[1].events # <<>>
    /\ Len(http) = 2
    /\ result.kind = "return"

(***************************************************************************)
(* Properties of the paginator, checked under SpecPaginate and Spec.       *)
(***************************************************************************)
LastOutcome == outcomes[Len(outcomes)]

\* The backend's last answer is a 200 carrying a collection.
FetchedCollection ==
    /\ outcomes # <<>>
    /\ LastOutcome.kind = "response"
    /\ LastOutcome.status = 200
    /\ LastOutcome.body.text = "json"
    /\ LastOutcome.body.json.type = "list"

\* The backend's last answer is a 200 carrying a single object.
FetchedObject ==
    /\ outcomes # <<>>
    /\ LastOutcome.kind = "response"
    /\ LastOutcome.status = 200
    /\ LastOutcome.body.text = "json"
    /\ LastOutcome.body.json.type = "dict"

\* C15: for page >= 1, per_page >= 1 and a backend collection L, _paginate
\* returns, without an error, exactly the elements of L at the 0-based
\* indices [(page-1)*per_page, min(page*per_page, len(L))) in their order:
\* the empty sequence when the page lies past the end.
C15_PageWindow ==
    ( /\ pc = "done"
      /\ call.page >= 1
      /\ call.per_page.some
      /\ call.per_page.val >= 1
      /\ FetchedCollection )
    => LET L == LastOutcome.body.json.elems
           lo == (call.page - 1) * call.per_page.val
           hi == Min(call.page * call.per_page.val, Len(L))
       IN  /\ result.kind = "return"
           /\ result.value.type = "list"
           /\ Len(result.value.elems) = Max(0, hi - lo)
           /\ \A j \in 1..Len(result.value.elems) :
                  result.value.elems[j] = L[lo + j]

C15_Witness ==
    /\ pc = "done"
    /\ call.page = 2
    /\ call.per_page = Some(2)
    /\ FetchedCollection
    /\ Len(LastOutcome.body.json.elems) = 3
    /\ result.kind = "return"
    /\ result.value.elems = <<JDict([id |-> "3"])>>

\* C16: a _paginate call with page < 1 or per_page < 1 ends raising
\* ValueError, without an HTTP request.
C16_InvalidArgumentRejected ==
    (call.page < 1 \/ (call.per_page.some /\ call.per_page.val < 1))
    => /\ pc \in {"pag_start", "done"}
       /\ http = <<>>
       /\ pc = "done" => (result.kind = "raise" /\ result.exc = "ValueError")

\* C17: a list operation called without per_page, for a page >= 1, fails
\* only when the backend makes it fail, and returns the page whose size is
\* valves.per_page.
C17_DefaultPageSize ==
    ( /\ call.op \in ListOps
      /\ ~call.per_page.some
      /\ call.page >= 1
      /\ valves.per_page >= 1
      /\ pc = "done" )
    => /\ http # <<>>
       /\ FetchedCollection
          => /\ result.kind = "return"
             /\ Len(result.value.elems) =
                    Max(0, Min(call.page * valves.per_page,
                               Len(LastOutcome.body.json.elems))
                           - (call.page - 1) * valves.per_page)

\* C18: when the backend answers a single object, _paginate returns
\* [object] for page 1 and the empty sequence for every page >= 2.
C18_SingleObjectPaged ==
    (pc = "done" /\ result.kind = "return" /\ FetchedObject)
    => result.value = IF call.page = 1
                      THEN JList(<<LastOutcome.body.json>>)
                      ELSE JList(<<>>)

(***************************************************************************)
(* Properties of the projector, checked under SpecProject.                 *)
(***************************************************************************)
\* compact resolves to true: explicit True, or unset with the default set.
ResolvesCompact ==
    call.compact = "True" \/ (call.compact = "None" /\ valves.compact_results_default)

\* out holds only keys of in, each with the value in has for it.
SubRecord(out, in) ==
    /\ out.type = "dict"
    /\ DOMAIN out.fields \subseteq DOMAIN in.fields
    /\ \A k \in DOMAIN out.fields : out.fields[k] = in.fields[k]

\* C19: in compact mode every key of a projected record is a key of the
\* input record and carries the input's value, for a single record and for
\* every record of a collection.
C19_ProjectorOnlySubsets ==
    (pc = "done" /\ ResolvesCompact)
    => /\ call.data.type = "dict" => SubRecord(result.value, call.data)
       /\ call.data.type = "list"
          => /\ Len(result.value.elems) = Len(call.data.elems)
             /\ \A i \in 1..Len(call.data.elems) :
                    call.data.elems[i].type = "dict"
                    => SubRecord(result.value.elems[i], call.data.elems[i])

\* C20: when compact is False, or unset while compact_results_default is
\* false, _maybe_compact returns its input whatever the kind; an explicit
\* compact wins over the configured default in both directions (an explicit
\* True projects a ticket, dropping its "note" key, even with the default
\* false).
C20_IdentityWhenNotCompact ==
    pc = "done"
    => /\ (call.compact = "False"
             \/ (call.compact = "None" /\ ~valves.compact_results_default))
          => result = Return(call.data)
       /\ (call.compact = "True" /\ call.kind = "ticket" /\ call.data.type = "dict")
          => /\ result.value.type = "dict"
             /\ "note" \notin DOMAIN result.value.fields
             /\ "id" \in DOMAIN call.data.fields
                => result.value.fields["id"] = call.data.fields["id"]

C20_Witness ==
    /\ pc = "done"
    /\ call.compact = "False"
    /\ valves.compact_results_default
    /\ call.kind = "ticket"
    /\ call.data = JList(<<JDict(TicketA), JDict(TicketB)>>)
    /\ result.value = call.data

\* C21: the value a compact projection returned is returned unchanged by a
\* further projection of the same kind, with compact False (identity) as
\* with compact True (idempotent once reduced), for records, collections and
\* values that are no mapping.
C21_RoundTrip ==
    ( /\ history # <<>>
      /\ pc = "done"
      /\ history[1].call.compact = "True" )
    => /\ call.data = history[1].result.value
       /\ call.kind = history[1].call.kind
       /\ call.compact \in {"True", "False"}
       /\ result = history[1].result

C21_Witness ==
    /\ history # <<>>
    /\ pc = "done"
    /\ history[1].call.compact = "True"
    /\ history[1].call.kind = "ticket"
    /\ history[1].call.data = JDict(TicketA)
    /\ call.compact = "True"
    /\ call.data # history[1].call.data
    /\ result = history[1].result

\* C22: a compact projection of kind article keeps the body key of every
\* article that has one, with the article's own value: for a single article
\* and for every article of a collection.
C22_ArticleBodyRetained ==
    LET Keeps(out, in) ==
            "body" \in DOMAIN in.fields
            => /\ out.type = "dict"
               /\ "body" \in DOMAIN out.fields
               /\ out.fields["body"] = in.fields["body"]
    IN  (pc = "done" /\ history = <<>> /\ call.kind = "article" /\ ResolvesCompact)
        => /\ call.data.type = "dict" => Keeps(result.value, call.data)
           /\ call.data.type = "list"
              => /\ Len(result.value.elems) = Len(call.data.elems)
                 /\ \A i \in 1..Len(call.data.elems) :
                        call.data.elems[i].type = "dict"
                        => Keeps(result.value.elems[i], call.data.elems[i])

C22_Witness ==
    /\ pc = "done"
    /\ call.kind = "article"
    /\ call.compact = "True"
    /\ call.data = JList(<<JDict(ArticleA), JDict(ArticleB)>>)
    /\ result.value.elems[1].fields["body"] = "text"
    /\ result.value.elems[2].fields["body"] = "reply"
    /\ "attachments" \notin DOMAIN result.value.elems[1].fields

(***************************************************************************)
(* Properties of the delay calculator, checked under SpecDelay.            *)
(***************************************************************************)
\* The exponential base of an attempt, clamped: min(initial * 2^(a-1), max).
ClampedBackoff ==
    Min(valves.backoff_initial_seconds * Pow2(call.attempt - 1),
        valves.backoff_max_seconds)

NoJitterNoHint == valves.retry_jitter = 0 /\ ~call.retry_after.some

\* C23, as stated: with jitter = 0 and no server hint the delay is exactly
\* min(backoff_initial * 2^(attempt-1), backoff_max), for every attempt >= 1
\* and every setting.
C23_ExactBackoff_AsStated ==
    (pc = "done" /\ NoJitterNoHint) => result.value = ClampedBackoff

\* C23, amended: with jitter = 0 and no server hint the delay is
\* max(0, min(backoff_initial * 2^(attempt-1), backoff_max)) for every
\* attempt >= 1 and every setting: exactly the min whenever no backoff
\* setting is negative.
C23_ExactBackoff ==
    (pc = "done" /\ NoJitterNoHint)
    => /\ result.value = Max(0, ClampedBackoff)
       /\ (valves.backoff_initial_seconds >= 0 /\ valves.backoff_max_seconds >= 0)
          => result.value = ClampedBackoff

C23_Witness ==
    /\ pc = "done"
    /\ NoJitterNoHint
    /\ call.attempt = 3
    /\ valves.backoff_initial_seconds = 80
    /\ valves.backoff_max_seconds = 1000
    /\ result.value = 320

\* C24: the delay is never negative, whatever the attempt, the backoff
\* settings, the jitter proportion (above 100 % included), the server hint
\* and the value drawn.
C24_DelayNonNegative ==
    pc = "done" => result.value >= 0

C24_Witness ==
    /\ pc = "done"
    /\ valves.retry_jitter = 150
    /\ valves.backoff_initial_seconds = 80
    /\ valves.backoff_max_seconds = 1000
    /\ call.attempt = 2
    /\ ~call.retry_after.some
    /\ result.value = 0

(***************************************************************************)
(* Further properties of the retry driver, checked under SpecRequest.      *)
(***************************************************************************)
\* C25: the sleep after a response whose Retry-After header parses to a
\* number above 0 ("5", five seconds) is based on that number clamped to
\* backoff_max, whatever the attempt; after a response without the header,
\* with a header that is no number or with "0", and after a network error,
\* it is based on min(backoff_initial * 2^(k-1), backoff_max).  With jitter
\* the delay is the base or one of the two ends of base +/- base * jitter.
C25_RetryAfterHint ==
    \A k \in 1..Len(sleeps) :
        LET o == outcomes[k]
            hinted == o.kind = "response" /\ o.retry_after = "5"
            base == IF hinted
                    THEN Min(500, valves.backoff_max_seconds)
                    ELSE Min(valves.backoff_initial_seconds * Pow2(k - 1),
                             valves.backoff_max_seconds)
            delta == (base * valves.retry_jitter) \div 100
        IN  /\ sleeps[k].retry_after.some <=> (o.kind = "response" /\ o.retry_after \in {"5", "0"})
            /\ IF valves.retry_jitter = 0
               THEN sleeps[k].delay = base
               ELSE sleeps[k].delay \in {base - delta, base, base + delta}

C25_Witness ==
    /\ valves.retry_jitter = 0
    /\ valves.backoff_initial_seconds = 200
    /\ valves.backoff_max_seconds = 1000
    /\ Len(sleeps) = 2
    /\ outcomes[1].retry_after = "5"
    /\ outcomes[2].retry_after = "5"
    /\ sleeps[1].delay = 500
    /\ sleeps[2].delay = 500

\* C26: every HTTP request carries exactly one auth mechanism: the token
\* header and no basic auth whenever a token is set, basic auth with the
\* username and password and no token header when no token is set and both
\* are; with neither usable the call raises ValueError without any request.
C26_OneAuthMechanism ==
    LET token_set == valves.token # ""
        pair_set == valves.username # "" /\ valves.password # ""
    IN  /\ \A i \in 1..Len(http) :
               /\ (http[i].headers.authorization # <<>>) # (http[i].auth # <<>>)
               /\ token_set
                  => /\ http[i].headers.authorization = <<"Token token=", valves.token>>
                     /\ http[i].auth = <<>>
               /\ ~token_set
                  => /\ http[i].headers.authorization = <<>>
                     /\ http[i].auth = <<valves.username, valves.password>>
        /\ (~token_set /\ ~pair_set)
           => /\ http = <<>>
              /\ pc \in {"req_enter", "req_exit"}
              /\ pc = "req_exit" => (result.kind = "raise" /\ result.exc = "ValueError")
        /\ ((token_set \/ pair_set) /\ pc = "req_exit") => http # <<>>

C26_Witness ==
    /\ valves.token = "tok"
    /\ valves.username = "u"
    /\ valves.password = "p"
    /\ Len(http) = 2
    /\ http[2].auth = <<>>
    /\ http[2].headers.authorization = <<"Token token=", "tok">>

\* C29: retryable statuses and caught network errors, in any interleaving,
\* share one budget: a call makes at most max_retries + 1 attempts; every
\* attempt but the last was one of the two kinds of failure and was followed
\* by exactly one sleep; and the call ends as its last attempt alone says:
\* the payload of a response below 400, the API error with the status of a
\* response from 400 on, or the network error raised.
C29_SharedBudget ==
    LET n == Len(outcomes)
        N == Max(0, valves.max_retries)
    IN  /\ n <= N + 1
        /\ Len(http) = n
        /\ Len(sleeps) \in {n - 1, n}
        /\ n >= 1 => (Len(sleeps) = n <=> pc \in {"req_sleep", "req_attempt"})
        /\ \A i \in 1..Len(sleeps) :
               IsRetryableResponse(outcomes[i]) \/ IsNetworkFailure(outcomes[i])
        /\ (pc = "req_exit" /\ n >= 1)
           => /\ Len(sleeps) = n - 1
              /\ (IsRetryableResponse(outcomes[n]) \/ IsNetworkFailure(outcomes[n]))
                 => n = N + 1
              /\ outcomes[n].kind = "exception"
                 => (result.kind = "raise" /\ result.exc = outcomes[n].exc)
              /\ (outcomes[n].kind = "response" /\ outcomes[n].status >= 400)
                 => /\ result.kind = "raise"
                    /\ result.exc = "RuntimeError"
                    /\ result.status = outcomes[n].status
              /\ ( /\ outcomes[n].kind = "response"
                    /\ outcomes[n].status < 400
                    /\ outcomes[n].body.text # "garbage" )
                 => /\ result.kind = "return"
                    /\ result.value \in {OkMarker, outcomes[n].body.json}

C29_Witness ==
    /\ valves.max_retries = 2
    /\ Len(outcomes) = 3
    /\ outcomes[1].kind = "response"
    /\ outcomes[1].status = 503
    /\ outcomes[2].kind = "exception"
    /\ outcomes[2].exc = "ReadTimeout"
    /\ outcomes[3].kind = "exception"
    /\ outcomes[3].exc = "ConnectError"
    /\ pc = "req_exit"
    /\ result.exc = "ConnectError"
    /\ Len(sleeps) = 2

C27_InternalForced ==
    LET expected == IF valves.allow_public_articles THEN call.internal ELSE TRUE
    IN  \A i \in 1..Len(http) :
            LET sent == http[i].json.dict IN
            /\ call.op = "zammad_create_ticket"
               => /\ "article" \in DOMAIN sent <=> call.article_body # ""
                  /\ "article" \in DOMAIN sent
                     => /\ sent["article"].internal = expected
                        /\ sent["article"].body = call.article_body
            /\ call.op = "zammad_create_ticket_article"
               => /\ sent["internal"] = expected
                  /\ sent["body"] = call.article_body

C27_Witness ==
    /\ ~valves.allow_public_articles
    /\ ~call.internal
    /\ call.op = "zammad_create_ticket"
    /\ call.article_body = "hello"
    /\ Len(http) = 2
    /\ http[2].json.dict["article"].internal = TRUE

\* C28: two successive invocations of the same operation with the same
\* arguments and wiring, the same backend answers and the same confirmation
\* answers issue the same HTTP requests, emit the same events and end the
\* same way; the second invocation sends each of its requests itself.
C28_Stateless ==
    ( /\ history # <<>>
      /\ pc = "done"
      /\ call = history[1].call
      /\ confirms = history[1].confirms )
    => /\ http = history[1].http
       /\ outcomes = history[1].outcomes
       /\ sleeps = history[1].sleeps
       /\ events = history[1].events
       /\ result = history[1].result

C28_Witness ==
    /\ history # <<>>
    /\ pc = "done"
    /\ call = history[1].call
    /\ call.op = "zammad_get_ticket"
    /\ call.emitter
    /\ Len(history[1].http) = 2
    /\ Len(http) = 2
    /\ Len(events) = 3
    /\ result.kind = "return"

(***************************************************************************)
(* Further properties of the paginator, checked under SpecPaginate.        *)
(***************************************************************************)
\* C31: a _paginate call makes one _request call (one client is opened, and
\* an attempt is followed by another only when it failed in a retryable
\* way); every request it sends is a GET of the caller's path with the
\* caller's query parameters and nothing else: no page, no per_page, no
\* body.  With page >= 1 and per_page >= 1 the call is made whatever their
\* values.
C31_SingleGetUnpaged ==
    /\ Len(clients) <= 1
    /\ \A i \in 1..Len(http) :
          /\ http[i].client = 1
          /\ http[i].method = "GET"
          /\ http[i].url.path = call.path
          /\ http[i].params.present
          /\ http[i].params.dict = call.params
          /\ "page" \notin DOMAIN http[i].params.dict
          /\ "per_page" \notin DOMAIN http[i].params.dict
          /\ ~http[i].json.present
          /\ i < Len(http)
             => (IsRetryableResponse(outcomes[i]) \/ IsNetworkFailure(outcomes[i]))
    /\ ( /\ pc = "done"
         /\ call.page >= 1
         /\ call.per_page.some
         /\ call.per_page.val >= 1 )
       => /\ Len(clients) = 1
          /\ http # <<>>

C31_Witness ==
    /\ pc = "done"
    /\ call.page = 3
    /\ call.per_page = Some(2)
    /\ call.params = [query |-> "state:open"]
    /\ Len(http) = 2
    /\ http[2].params.dict = [query |-> "state:open"]
    /\ result.kind = "return"

(***************************************************************************)
(* Further properties of the projector, checked under SpecProject.         *)
(***************************************************************************)
\* The projection of one record: the keys of the kind's list, each with the
\* record's value, or None where the record has none.
ProjectedRecord(kind, rec) ==
    JDict([k \in CompactKeys(kind) |->
              IF k \in DOMAIN rec.fields THEN rec.fields[k] ELSE "<None>"])

\* C32: in compact mode a collection is projected element by element: the
\* output is as long as the input, and its i-th element is the input's i-th
\* element itself when that is no mapping or the kind is unknown, and the
\* projection of the input's i-th element otherwise.
C32_ElementWise ==
    (pc = "done" /\ ResolvesCompact /\ call.data.type = "list")
    => /\ result.kind = "return"
       /\ result.value.type = "list"
       /\ Len(result.value.elems) = Len(call.data.elems)
       /\ \A i \in 1..Len(call.data.elems) :
              LET x == call.data.elems[i]
                  y == result.value.elems[i]
              IN  IF x.type # "dict" \/ call.kind = "attachment"
                  THEN y = x
                  ELSE y = ProjectedRecord(call.kind, x)

C32_Witness ==
    /\ pc = "done"
    /\ call.compact = "True"
    /\ call.kind = "priority"
    /\ call.data = JList(<<JDict(PriorityA), JNull>>)
    /\ result.value.elems = <<JDict(PriorityA), JNull>>

(***************************************************************************)
(* Sessions, confirmations and the requests of the retries.                *)
(***************************************************************************)
AllClosed == \A i \in 1..Len(clients) : clients[i] = "closed"

\* C33, the state part: a _request call has opened no client before it
\* starts, holds exactly one open client while attempts may follow, names
\* that client in every request, and has closed it wherever it ends: return,
\* API error, retries used up, network error, decoder error (a call that
\* fails on the credentials never opens one).
C33_OneClientPerCall ==
    /\ Len(clients) <= 1
    /\ pc = "req_enter" => clients = <<>>
    /\ pc \in {"req_attempt", "req_sleep"} => clients = <<"open">>
    /\ pc = "req_exit"
       => /\ AllClosed
          /\ clients = <<>> <=> ConfigurationError
    /\ \A i \in 1..Len(http) : http[i].client = 1

\* C33: each _request call opens exactly one client, every attempt is sent
\* on that client while it is open, and the client is closed on every exit
\* path; a closed client is never opened or used again.
C33_SessionScopedToCall ==
    /\ []C33_OneClientPerCall
    /\ [][(http' # http)
            => (clients = <<"open">> /\ http'[Len(http')].client = 1)]_vars
    /\ [][AllClosed /\ clients # <<>> => clients' = clients /\ http' = http]_vars

C33_Witness ==
    /\ pc = "req_exit"
    /\ Len(http) = 3
    /\ clients = <<"closed">>
    /\ result.kind = "raise"
    /\ result.exc = "ReadTimeout"
    /\ http[3].client = 1

\* C35: a confirmation request is issued only by zammad_create_ticket,
\* zammad_update_ticket and zammad_create_ticket_article, only with
\* require_confirmation_for_write_ops set, at most once per invocation and
\* before the first HTTP attempt: it is answered by the time a request is
\* sent, and no retry adds another; the read operations issue none.
C35_ConfirmationOncePerWrite ==
    /\ Len(confirms) <= 1
    /\ confirms # <<>>
       => /\ call.op \in {"zammad_create_ticket", "zammad_update_ticket",
                          "zammad_create_ticket_article"}
          /\ valves.require_confirmation_for_write_ops
    /\ call.op \in {"zammad_get_ticket", "zammad_list_tickets"} => confirms = <<>>
    /\ http # <<>> => \A i \in 1..Len(confirms) : confirms[i].answer # "pending"

C35_Witness ==
    /\ call.op = "zammad_create_ticket"
    /\ valves.require_confirmation_for_write_ops
    /\ Len(confirms) = 1
    /\ confirms[1].answer = "True"
    /\ Len(http) = 2
    /\ Len(sleeps) = 1
    /\ pc = "done"

\* C36: every attempt of a _request call sends the method, the URL, the
\* query parameters and the body of the call, those the first attempt sent,
\* with the same headers and auth: a retried POST sends its body again.
C36_RetriesResendRequest ==
    \A i \in 1..Len(http) :
        /\ http[i].method = req.method
        /\ http[i].url.path = req.path
        /\ http[i].params = req.params
        /\ http[i].json = req.json
        /\ http[i] = http[1]

C36_Witness ==
    /\ req.method = "POST"
    /\ Len(http) = 3
    /\ http[3].json.present
    /\ http[3].json.dict = [title |-> "printer", group |-> "Users"]
    /\ IsNetworkFailure(outcomes[1])
    /\ IsRetryableResponse(outcomes[2])

(***************************************************************************)
(* Two invocations in flight, checked under SpecPair.                      *)
(***************************************************************************)
\* The first invocation (ticket 1) while the second is in flight, whether
\* it is running or parked.
FirstInFlight == IF call.ticket_id = "1" THEN Suspended ELSE other[1]

SecondInFlight == IF call.ticket_id = "1" THEN other[1] ELSE Suspended

\* C34, the state part: whatever the interleaving with the second
\* invocation, the first invocation, given the backend answers and the
\* confirmation answer it got when run alone, has issued the same HTTP
\* requests, slept the same, emitted the same events and ended the same
\* way as when run alone; the second invocation's requests are its own.
C34_AsWhenRunAlone ==
    (history # <<>> /\ other # <<>>)
    => /\ ( /\ FirstInFlight.pc = "done"
            /\ FirstInFlight.confirms = history[1].confirms )
          => /\ FirstInFlight.http = history[1].http
             /\ FirstInFlight.outcomes = history[1].outcomes
             /\ FirstInFlight.sleeps = history[1].sleeps
             /\ FirstInFlight.events = history[1].events
             /\ FirstInFlight.result = history[1].result
       /\ \A i \in 1..Len(SecondInFlight.http) :
              SecondInFlight.http[i].url.path.id \in {"", "2"}
       /\ SecondInFlight.call.ticket_id = "2"

\* C34: two invocations in flight are independent under every interleaving
\* of their suspension points, and no step of either modifies the
\* configuration.
C34_ConcurrentIndependence ==
    /\ []C34_AsWhenRunAlone
    /\ [][valves' = valves]_vars

C34_Witness ==
    /\ history # <<>>
    /\ call.ticket_id = "2"
    /\ call.op = "zammad_get_ticket"
    /\ pc = "done"
    /\ Len(http) = 2
    /\ other[1].pc = "done"
    /\ other[1].call.op = "zammad_create_ticket"
    /\ other[1].confirms = history[1].confirms
    /\ Len(other[1].http) = 2
    /\ other[1].events = history[1].events
    /\ Len(other[1].events) >= 2

====
